---- MODULE Spec2Model ----
(***************************************************************************)
(* Model of the `wad` command (src/qcli/wad/cli.py): building QPIC and     *)
(* MIPTEX lumps from images, appending them (or raw files) to a WAD        *)
(* archive, and the run's control flow, output and exit status.            *)
(*                                                                         *)
(* Strings are sequences of one-character strings.  An image is a record   *)
(* of its mode, width, height and row-major pixels: palette indices for    *)
(* mode "P" (with the file's own palette), <<r, g, b>> triples for "RGB".  *)
(***************************************************************************)
EXTENDS Integers, Sequences, FiniteSets, TLC

\* ---------------------------------------------------------------- bounds
\* longest input list given on the command line
MaxInputs == 2
\* most entries of an archive that exists before the run
MaxExisting == 2

\* ------------------------------------------------------------- constants
\* first fullbright palette index is FullbrightLimit + 1 (cli.py:27)
FullbrightLimit == 223
\* size of the fixed MIPTEX header: 16s name + 6 u32 (cli.py:186, cli.py:218)
MiptexHeaderSize == 40
\* palette bytes zeroed in the no-fullbright palette: 32 entries * 3 (cli.py:135)
NoFbBytes == 96
\* number of mip levels built (cli.py:191)
MipLevels == 4
\* WAD header: magic, entry count (u32), directory offset (u32)
WadHeaderSize == 12
\* one directory record
WadEntrySize == 32
\* width of the MIPTEX name field
NameFieldSize == 16

\* ------------------------------------------------------ string helpers
Min(S) == CHOOSE m \in S : \A n \in S : m <= n
Max(S) == CHOOSE m \in S : \A n \in S : m >= n

IndicesOf(s, ch) == {i \in 1..Len(s) : s[i] = ch}

\* os.path.basename: what follows the last separator
basename(p) ==
    LET I == IndicesOf(p, "/")
    IN  IF I = {} THEN p ELSE SubSeq(p, Max(I) + 1, Len(p))

\* str.split('.')[0]: what precedes the first dot (the whole string if none)
split_dot_first(s) ==
    LET I == IndicesOf(s, ".")
    IN  IF I = {} THEN s ELSE SubSeq(s, 1, Min(I) - 1)

\* name = os.path.basename(file).split('.')[0]
lump_name(file) == split_dot_first(basename(file))

\* ------------------------------------------------------------- palette
\* quake.palette: 256 RGB triples.  Entry 0 is black; entries 224..255 are
\* the fullbright colours.  The colour data stands in for the game palette.
quake_palette == [i \in 0..255 |-> <<i, i, i>>]

\* palette = []; for p in quake.palette: palette += p
palette == [k \in 1..(3 * 256) |-> quake_palette[(k - 1) \div 3][((k - 1) % 3) + 1]]

\* palette_nofb = palette[:-96] + [0] * 96
palette_nofb == SubSeq(palette, 1, Len(palette) - NoFbBytes) \o [k \in 1..NoFbBytes |-> 0]

\* the palette images handed to Image.quantize() carry these palettes
palette_image == palette
palette_image_nofb == palette_nofb

PaletteColour(pal, i) == <<pal[3 * i + 1], pal[3 * i + 2], pal[3 * i + 3]>>

Dist(c, d) ==
    (c[1] - d[1]) * (c[1] - d[1]) + (c[2] - d[2]) * (c[2] - d[2])
        + (c[3] - d[3]) * (c[3] - d[3])

\* nearest palette entry of a colour; among equally near entries the search
\* keeps the first one it met, i.e. the lowest index
NearestIndex(c, pal) ==
    CHOOSE i \in 0..255 :
        \A j \in 0..255 :
            \/ Dist(c, PaletteColour(pal, i)) < Dist(c, PaletteColour(pal, j))
            \/ /\ Dist(c, PaletteColour(pal, i)) = Dist(c, PaletteColour(pal, j))
               /\ i <= j

\* the colours that occur in the modelled inputs and resampling results
Black == <<0, 0, 0>>
Dark == <<5, 5, 5>>
Grey == <<100, 100, 100>>
Bright == <<250, 250, 250>>
White == <<255, 255, 255>>
RGBColours == {Black, Dark, Grey, Bright, White}

QuantTable ==
    [pal \in {palette_image, palette_image_nofb} |->
        [c \in RGBColours |-> NearestIndex(c, pal)]]

\* ------------------------------------------------------------- images
PixelX(p, w) == (p - 1) % w
PixelY(p, w) == (p - 1) \div w

\* Image.quantize(palette=...): every pixel to its nearest palette entry
quantize(img_rgb, pal) ==
    LET nearest == QuantTable[pal]
    IN  [mode |-> "P", width |-> img_rgb.width, height |-> img_rgb.height,
         pal |-> "quake",
         pixels |-> [p \in 1..Len(img_rgb.pixels) |-> nearest[img_rgb.pixels[p]]]]

\* the palette an indexed input file carries: the game palette, or the
\* file's own, in which entry 5 is white and every other entry black
FilePalette(img) ==
    IF img.pal = "quake" THEN palette
    ELSE [k \in 1..(3 * 256) |-> IF k \in 16..18 THEN 255 ELSE 0]

\* Image.convert(mode='RGB'): an indexed image through its own palette
convert_rgb(img) ==
    IF img.mode = "RGB" THEN img
    ELSE LET file_palette == FilePalette(img)
         IN  [mode |-> "RGB", width |-> img.width, height |-> img.height,
              pal |-> "none",
              pixels |-> [p \in 1..Len(img.pixels) |->
                             PaletteColour(file_palette, img.pixels[p])]]

\* source pixel a nearest-neighbour resize reads for target pixel q
NearestSource(img, size, q) ==
    LET x == PixelX(q, size[1])
        y == PixelY(q, size[1])
        sx == ((2 * x + 1) * img.width) \div (2 * size[1])
        sy == ((2 * y + 1) * img.height) \div (2 * size[2])
    IN  sy * img.width + sx + 1

\* Image.resize(size) of an indexed image: nearest neighbour
resize_nearest(img, size) ==
    [mode |-> img.mode, width |-> size[1], height |-> size[2], pal |-> img.pal,
     pixels |-> [q \in 1..(size[1] * size[2]) |-> img.pixels[NearestSource(img, size, q)]]]

\* Image.resize(size) of an RGB image: a filtered resample.  The filter is a
\* black box; its result mixes source colours with a blended colour c.
resize_smooth(img_rgb, size, c) ==
    [mode |-> "RGB", width |-> size[1], height |-> size[2], pal |-> "none",
     pixels |-> [q \in 1..(size[1] * size[2]) |->
                    IF (PixelX(q, size[1]) + PixelY(q, size[1])) % 2 = 0
                    THEN c
                    ELSE img_rgb.pixels[NearestSource(img_rgb, size, q)]]]

\* has_fullbright(img): True once a pixel > 223 is met, else None (falsy)
has_fullbright(img) == \E p \in 1..Len(img.pixels) : img.pixels[p] > FullbrightLimit

\* ---------------------------------------------------------- input files
\* An input path names a file that may be unreadable, holds rawsize bytes
\* and may decode as an image.
NoImage == [mode |-> "none", width |-> 0, height |-> 0, pal |-> "none", pixels |-> <<>>]

SpotImage(mode, pal, w, h, spot, rest) ==
    [mode |-> mode, width |-> w, height |-> h, pal |-> pal,
     pixels |-> [p \in 1..(w * h) |->
                    IF PixelX(p, w) = 1 /\ PixelY(p, w) = 1 THEN spot ELSE rest]]

\* "t/wall01.png": 8x8 true colour, grey with one black pixel
WallFile ==
    [path |-> <<"t", "/", "w", "a", "l", "l", "0", "1", ".", "p", "n", "g">>,
     readable |-> TRUE, rawsize |-> 7,
     image |-> SpotImage("RGB", "none", 8, 8, Black, Grey)]
\* "a.b.png": 10x9 true colour, dark with one white pixel
LavaFile ==
    [path |-> <<"a", ".", "b", ".", "p", "n", "g">>,
     readable |-> TRUE, rawsize |-> 9,
     image |-> SpotImage("RGB", "none", 10, 9, White, Dark)]
\* ".h.png": 8x8 indexed with its own palette, indices 5 (white) and 100 (black)
IndexedFile ==
    [path |-> <<".", "h", ".", "p", "n", "g">>,
     readable |-> TRUE, rawsize |-> 5,
     image |-> SpotImage("P", "own", 8, 8, 100, 5)]
\* "e.lmp": an empty file
EmptyFile ==
    [path |-> <<"e", ".", "l", "m", "p">>,
     readable |-> TRUE, rawsize |-> 0, image |-> NoImage]
\* "n.png": a path that cannot be read
MissingFile ==
    [path |-> <<"n", ".", "p", "n", "g">>,
     readable |-> FALSE, rawsize |-> 0, image |-> NoImage]
\* "s.png": 4x8 true colour, too small for 3 halvings
TinyFile ==
    [path |-> <<"s", ".", "p", "n", "g">>,
     readable |-> TRUE, rawsize |-> 3,
     image |-> SpotImage("RGB", "none", 4, 8, Grey, Grey)]

Files == {WallFile, LavaFile, IndexedFile, EmptyFile, MissingFile, TinyFile}

\* Image.open(file) succeeds
Decodable(file) == file.readable /\ file.image.mode # "none"

\* --------------------------------------------------------- lump building
\* little-endian u32
U32(n) == <<n % 256, (n \div 256) % 256, (n \div 65536) % 256, (n \div 16777216) % 256>>

RECURSIVE Flatten(_)
Flatten(ss) == IF ss = <<>> THEN <<>> ELSE Head(ss) \o Flatten(Tail(ss))

\* a name in its fixed-width field: truncated, padded with NUL (0)
NameField(name) ==
    [k \in 1..NameFieldSize |-> IF k <= Len(name) THEN name[k] ELSE 0]

\* (img.width // pow(2, i), img.height // pow(2, i))
MipSize(img, i) == <<img.width \div (2 ^ i), img.height \div (2 ^ i)>>

\* a variant that does not look at the fullbright status
smooth_scaling_ignores_fb(a, has_fb) == a.smooth_mip \/ a.smart_mip

\* smooth_scaling = args.smooth_mip or (args.smart_mip and not has_fb)
smooth_scaling(a, has_fb) == a.smooth_mip \/ (a.smart_mip /\ ~has_fb)

\* a variant that always quantizes against the full palette
target_palette_always_full(has_fb) == palette_image

\* target_palette = palette_image if has_fb else palette_image_nofb
target_palette(has_fb) == IF has_fb THEN palette_image ELSE palette_image_nofb

\* one iteration of `for i in range(4)`: the bytes of level i and the
\* branch that produced them
MipData(img, img_rgb, i, smooth, has_fb, c) ==
    IF i > 0
    THEN IF smooth
         THEN [path |-> "smooth",
               data |-> quantize(resize_smooth(img_rgb, MipSize(img, i), c),
                                 target_palette(has_fb)).pixels]
         ELSE [path |-> "nearest",
               data |-> resize_nearest(img, MipSize(img, i)).pixels]
    ELSE [path |-> "level0", data |-> img.pixels]

RECURSIVE mip_offsets(_, _)
\* a variant that adds each level's length to the header size, not to the
\* previous offset
mip_offsets_from_header(lv, i) ==
    IF i < 0 THEN <<MiptexHeaderSize>>
    ELSE LET prev == mip_offsets(lv, i - 1)
         IN  IF i < 3 THEN Append(prev, MiptexHeaderSize + Len(lv[i].data)) ELSE prev

\* mip.offsets after iteration i of the loop (i = -1: before the loop)
mip_offsets(lv, i) ==
    IF i < 0 THEN <<MiptexHeaderSize>>
    ELSE LET prev == mip_offsets(lv, i - 1)
         IN  IF i < 3 THEN Append(prev, prev[Len(prev)] + Len(lv[i].data)) ELSE prev

\* mip.pixels after iteration i of the loop
RECURSIVE mip_pixels(_, _)
mip_pixels(lv, i) == IF i < 0 THEN <<>> ELSE mip_pixels(lv, i - 1) \o lv[i].data

\* Miptexture.write: name field, width, height, the offsets, then the pixels
miptexture_write(mip) ==
    NameField(mip.name) \o U32(mip.width) \o U32(mip.height)
        \o Flatten([k \in 1..Len(mip.offsets) |-> U32(mip.offsets[k])])
        \o mip.pixels

\* Lmp.write: width, height, then the pixels
lmp_write(qpic) == U32(qpic.width) \o U32(qpic.height) \o qpic.pixels

\* a variant that counts the header twice
miptex_file_size_double_header(mip) == 2 * MiptexHeaderSize + Len(mip.pixels)

\* info.file_size = 40 + len(mip.pixels)
miptex_file_size(mip) == MiptexHeaderSize + Len(mip.pixels)

\* the image the lump is built from: the file's own indices when it is
\* indexed and raw_color_mode is set, else the RGB image quantized
source_indexed(a, img) ==
    IF img.mode # "P" \/ ~a.raw_color_mode
    THEN quantize(convert_rgb(img), palette_image)
    ELSE img

\* some level of the image has an empty size
HasEmptyLevel(img) ==
    \E i \in 1..(MipLevels - 1) : MipSize(img, i)[1] < 1 \/ MipSize(img, i)[2] < 1

\* a resize to an empty size raises unless the imaging library returns an
\* empty image for it (zero_ok)
ResizeRaises(img, zero_ok) == ~zero_ok /\ HasEmptyLevel(img)

\* what the imaging library may do with an empty size: open only when one occurs
ZeroChoices(f) == IF Decodable(f) /\ HasEmptyLevel(f.image) THEN BOOLEAN ELSE {FALSE}

\* the body of the MIPTEX branch's try block up to the log call: the levels
\* built, the Miptexture and the WadInfo filled in, and the length of buff
build_miptex(a, f, c) ==
    LET img_rgb == convert_rgb(f.image)
        img == source_indexed(a, f.image)
        has_fb == has_fullbright(img)
        smooth == smooth_scaling(a, has_fb)
        lv == [i \in 0..(MipLevels - 1) |-> MipData(img, img_rgb, i, smooth, has_fb, c)]
        mip == [name |-> lump_name(f.path), width |-> img.width, height |-> img.height,
                offsets |-> mip_offsets(lv, MipLevels - 1),
                pixels |-> mip_pixels(lv, MipLevels - 1)]
    IN  [kind |-> "MIPTEX", has_fb |-> has_fb, blend |-> c, levels |-> lv, mip |-> mip,
         size |-> Len(miptexture_write(mip)),
         info |-> [name |-> lump_name(f.path), file_offset |-> 0,
                   file_size |-> miptex_file_size(mip),
                   disk_size |-> miptex_file_size(mip),
                   compression |-> "NONE", type |-> "MIPTEX"]]

\* the body of the QPIC branch up to the log call
build_qpic(a, f) ==
    LET img == source_indexed(a, f.image)
        qpic == [width |-> img.width, height |-> img.height, pixels |-> img.pixels]
        buff == lmp_write(qpic)
    IN  [kind |-> "QPIC", has_fb |-> FALSE, blend |-> Black, levels |-> <<>>, mip |-> qpic,
         size |-> Len(buff),
         info |-> [name |-> lump_name(f.path), file_offset |-> 0,
                   file_size |-> Len(buff), disk_size |-> Len(buff),
                   compression |-> "NONE", type |-> "QPIC"]]

\* the outcomes of the resampling filter: it runs only on the smooth path
BlendChoices(a, f) ==
    IF Decodable(f) /\ smooth_scaling(a, has_fullbright(source_indexed(a, f.image)))
    THEN RGBColours
    ELSE {Black}

NoLump == [kind |-> "none"]

\* ------------------------------------------------------------ file system
Paths == {f.path : f \in Files}
FileAt(path) == CHOOSE f \in Files : f.path = path

\* ---------------------------------------------------------------- archive
\* The archive file on disk: its header, the lump extents written to its
\* body, the directory records last written and whether they are still
\* intact (no later write went over them).
Digit(j) == <<"1", "2", "3", "4", "5", "6", "7", "8", "9">>[j]
ExistingSize(j) == 8 * j
ExistingOffset(j) == WadHeaderSize + 4 * j * (j - 1)
ExistingEntry(j) ==
    [name |-> <<"o", Digit(j)>>, file_offset |-> ExistingOffset(j),
     file_size |-> ExistingSize(j), disk_size |-> ExistingSize(j),
     compression |-> "NONE", type |-> "LUMP"]

\* no file at the archive path
NoArchive ==
    [exists |-> FALSE, header |-> [numlumps |-> 0, diroffset |-> 0],
     body |-> <<>>, dir |-> [offset |-> 0, entries |-> <<>>], dir_intact |-> TRUE]

\* an archive of K lumps left by a clean close: directory right after the body
ExistingArchive(K) ==
    [exists |-> TRUE,
     header |-> [numlumps |-> K, diroffset |-> ExistingOffset(K + 1)],
     body |-> [j \in 1..K |-> [offset |-> ExistingOffset(j), size |-> ExistingSize(j)]],
     dir |-> [offset |-> ExistingOffset(K + 1), entries |-> [j \in 1..K |-> ExistingEntry(j)]],
     dir_intact |-> TRUE]

Unopened == [mode |-> "", file_list |-> <<>>, start_of_directory |-> 0, closed |-> FALSE]

\* a variant that always creates
filemode_always_create(d) == "w"

\* filemode = 'a'; if not os.path.isfile(args.file): filemode = 'w'
filemode(d) == IF ~d.exists THEN "w" ELSE "a"

\* WadFile(file, mode): create initialises an empty archive, append loads
\* the directory and positions writes where the directory starts
wad_open_file(d, mode) ==
    IF mode = "w"
    THEN [mode |-> "w", file_list |-> <<>>, start_of_directory |-> WadHeaderSize,
          closed |-> FALSE]
    ELSE [mode |-> "a", file_list |-> d.dir.entries,
          start_of_directory |-> d.header.diroffset, closed |-> FALSE]

wad_open_disk(d, mode) ==
    IF mode = "w"
    THEN [exists |-> TRUE, header |-> [numlumps |-> 0, diroffset |-> WadHeaderSize],
          body |-> <<>>, dir |-> [offset |-> WadHeaderSize, entries |-> <<>>],
          dir_intact |-> TRUE]
    ELSE d

Overlaps(o1, n1, o2, n2) == n1 > 0 /\ n2 > 0 /\ o1 < o2 + n2 /\ o2 < o1 + n1

\* writestr / write: the payload goes to the write cursor, the entry is
\* recorded with that offset
wad_append_file(wf, info, nbytes) ==
    [wf EXCEPT !.file_list = Append(@, [info EXCEPT !.file_offset = wf.start_of_directory]),
               !.start_of_directory = @ + nbytes]

wad_append_disk(wf, d, nbytes) ==
    [d EXCEPT !.body = Append(@, [offset |-> wf.start_of_directory, size |-> nbytes]),
              !.dir_intact = @ /\ ~Overlaps(wf.start_of_directory, nbytes, d.dir.offset,
                                            WadEntrySize * Len(d.dir.entries))]

\* close(): the directory goes after the body, then the header is rewritten
wad_close_disk(wf, d) ==
    [d EXCEPT !.header = [numlumps |-> Len(wf.file_list), diroffset |-> wf.start_of_directory],
              !.dir = [offset |-> wf.start_of_directory, entries |-> wf.file_list],
              !.dir_intact = TRUE]

\* WadInfo.from_file: the entry of a raw file
raw_info(file) ==
    [name |-> basename(file.path), file_offset |-> 0, file_size |-> file.rawsize,
     disk_size |-> file.rawsize, compression |-> "NONE", type |-> "LUMP"]

\* ------------------------------------------------------------ exit status
\* an exception that leaves main() ends the interpreter with status 1
UncaughtStatus == 1
\* parser.error(): message, then exit with an error status
ParserErrorStatus == 2

\* ------------------------------------------------------------------ state
VARIABLES
    args,        \* the parsed command line
    pre,         \* the archive file as it was before the run
    disk,        \* the archive file
    wad_file,    \* the open WadFile
    pc,          \* position in main()
    idx,         \* 1-based position of `file` in args.list
    pending,     \* the lump built for `file`, until the next one is built
    stdout,      \* lines printed
    exc,         \* status carried by the exception in flight, 0 if none
    exit_status, \* status the process ended with, -1 while it runs
    appended,    \* positions of the inputs whose lump was appended
    started,     \* positions of the inputs whose processing began
    failed_at    \* position of the input that failed, 0 if none

vars == <<args, pre, disk, wad_file, pc, idx, pending, stdout, exc, exit_status,
          appended, started, failed_at>>

Lists == UNION {[1..n -> Paths] : n \in 0..MaxInputs}

Init ==
    /\ args \in [type : {"LUMP", "QPIC", "MIPTEX"}, raw_color_mode : BOOLEAN,
                 smooth_mip : BOOLEAN, smart_mip : BOOLEAN, quiet : BOOLEAN,
                 list : Lists]
    /\ disk \in {NoArchive} \cup {ExistingArchive(K) : K \in 0..MaxExisting}
    /\ pre = disk
    /\ wad_file = Unopened
    /\ pc = "parse"
    /\ idx = 0
    /\ pending = NoLump
    /\ stdout = <<>>
    /\ exc = 0
    /\ exit_status = -1
    /\ appended = <<>>
    /\ started = {}
    /\ failed_at = 0

file == FileAt(args.list[idx])

\* a variant that prints even when quiet
log_ignores_quiet(out, message) == Append(out, message)

\* log(message): print unless quiet
log(out, message) == IF args.quiet THEN out ELSE Append(out, message)

\* a variant without the with block: the exception ends the process at once
Raise_without_close(status) ==
    /\ pc' = "exit"
    /\ exc' = status
    /\ failed_at' = idx
    /\ idx' = idx

\* a variant that swallows the exception and goes on with the next input
Raise_and_continue(status) ==
    /\ pc' = "loop"
    /\ idx' = idx + 1
    /\ UNCHANGED <<exc, failed_at>>

\* an exception leaves the loop body: the with block unwinds
Raise(status) ==
    /\ pc' = "unwind"
    /\ exc' = status
    /\ failed_at' = idx
    /\ idx' = idx

\* args = parser.parse_args(); if not args.list: parser.error(...)
ParseArgs ==
    /\ pc = "parse"
    /\ IF args.list = <<>>
       THEN /\ pc' = "done"
            /\ exit_status' = ParserErrorStatus
       ELSE /\ pc' = "open"
            /\ UNCHANGED exit_status
    /\ UNCHANGED <<args, pre, disk, wad_file, idx, pending, stdout, exc, appended,
                   started, failed_at>>

\* with wad.WadFile(args.file, filemode) as wad_file: log('Archive: ...')
OpenArchive ==
    /\ pc = "open"
    /\ wad_file' = wad_open_file(disk, filemode(disk))
    /\ disk' = wad_open_disk(disk, filemode(disk))
    /\ stdout' = log(stdout, [kind |-> "archive", input |-> 0])
    /\ idx' = 1
    /\ pc' = "loop"
    /\ UNCHANGED <<args, pre, pending, exc, exit_status, appended, started, failed_at>>

AtInput(type) == pc = "loop" /\ idx <= Len(args.list) /\ args.type = type

\* LUMP: log(f'  adding: {file}')
LogLump ==
    /\ AtInput("LUMP")
    /\ started' = started \cup {idx}
    /\ stdout' = log(stdout, [kind |-> "adding", input |-> idx])
    /\ pc' = "lump_write"
    /\ UNCHANGED <<args, pre, disk, wad_file, idx, pending, exc, exit_status, appended,
                   failed_at>>

\* the lump is on the archive: next input
Appended(info, nbytes) ==
    /\ wad_file' = wad_append_file(wad_file, info, nbytes)
    /\ disk' = wad_append_disk(wad_file, disk, nbytes)
    /\ appended' = Append(appended, idx)
    /\ idx' = idx + 1
    /\ pc' = "loop"

\* LUMP: wad_file.write(file)
WriteLump ==
    /\ pc = "lump_write"
    /\ IF file.readable
       THEN /\ Appended(raw_info(file), file.rawsize)
            /\ UNCHANGED <<exc, failed_at>>
       ELSE /\ Raise(UncaughtStatus)
            /\ UNCHANGED <<wad_file, disk, appended>>
    /\ UNCHANGED <<args, pre, pending, stdout, exit_status, started>>

\* QPIC: Image.open ... info.type = wad.LumpType.QPIC
EncodeQpic ==
    /\ AtInput("QPIC")
    /\ started' = started \cup {idx}
    /\ IF Decodable(file)
       THEN /\ pending' = build_qpic(args, file)
            /\ pc' = "qpic_log"
            /\ UNCHANGED <<exc, failed_at, idx>>
       ELSE /\ Raise(UncaughtStatus)
            /\ UNCHANGED pending
    /\ UNCHANGED <<args, pre, disk, wad_file, stdout, exit_status, appended>>

\* QPIC: log(f'  adding: {file}')
LogQpic ==
    /\ pc = "qpic_log"
    /\ stdout' = log(stdout, [kind |-> "adding", input |-> idx])
    /\ pc' = "qpic_write"
    /\ UNCHANGED <<args, pre, disk, wad_file, idx, pending, exc, exit_status, appended,
                   started, failed_at>>

\* QPIC: wad_file.writestr(info, buff)
WriteQpic ==
    /\ pc = "qpic_write"
    /\ Appended(pending.info, pending.size)
    /\ UNCHANGED <<args, pre, pending, stdout, exc, exit_status, started, failed_at>>

\* MIPTEX: try: Image.open ... info.type = wad.LumpType.MIPTEX;
\* except: parser.error(sys.exc_info()[1])
EncodeMiptex ==
    /\ AtInput("MIPTEX")
    /\ started' = started \cup {idx}
    /\ \E zero_ok \in ZeroChoices(file) : \E c \in BlendChoices(args, file) :
        IF Decodable(file) /\ ~ResizeRaises(file.image, zero_ok)
        THEN /\ pending' = build_miptex(args, file, c)
             /\ pc' = "mip_log"
             /\ UNCHANGED <<exc, failed_at, idx>>
        ELSE /\ Raise(ParserErrorStatus)
             /\ UNCHANGED pending
    /\ UNCHANGED <<args, pre, disk, wad_file, stdout, exit_status, appended>>

\* MIPTEX: log(f'  adding: {file}')
LogMiptex ==
    /\ pc = "mip_log"
    /\ stdout' = log(stdout, [kind |-> "adding", input |-> idx])
    /\ pc' = "mip_write"
    /\ UNCHANGED <<args, pre, disk, wad_file, idx, pending, exc, exit_status, appended,
                   started, failed_at>>

\* MIPTEX: wad_file.writestr(info, buff)
WriteMiptex ==
    /\ pc = "mip_write"
    /\ Appended(pending.info, pending.size)
    /\ UNCHANGED <<args, pre, pending, stdout, exc, exit_status, started, failed_at>>

\* the with block is left, by the end of the loop or by an exception:
\* WadFile.__exit__ closes the archive
CloseArchive ==
    /\ \/ pc = "unwind"
       \/ pc = "loop" /\ idx > Len(args.list)
    /\ disk' = wad_close_disk(wad_file, disk)
    /\ wad_file' = [wad_file EXCEPT !.closed = TRUE]
    /\ pc' = "exit"
    /\ UNCHANGED <<args, pre, idx, pending, stdout, exc, exit_status, appended, started,
                   failed_at>>

\* sys.exit(0), or the exception in flight ends the process
Exit ==
    /\ pc = "exit"
    /\ exit_status' = IF exc = 0 THEN 0 ELSE exc
    /\ pc' = "done"
    /\ UNCHANGED <<args, pre, disk, wad_file, idx, pending, stdout, exc, appended,
                   started, failed_at>>

Next ==
    \/ ParseArgs
    \/ OpenArchive
    \/ LogLump
    \/ WriteLump
    \/ EncodeQpic
    \/ LogQpic
    \/ WriteQpic
    \/ EncodeMiptex
    \/ LogMiptex
    \/ WriteMiptex
    \/ CloseArchive
    \/ Exit

Spec == Init /\ [][Next]_vars

\* ================================================================ claims
\* the inputs named by the progress lines, in print order
AddingLines ==
    LET lines == SelectSeq(stdout, LAMBDA m : m.kind = "adding")
    IN  [k \in 1..Len(lines) |-> lines[k].input]
SourceHasNoFullbright ==
    \A p \in 1..Len(pending.levels[0].data) : pending.levels[0].data[p] <= FullbrightLimit
LevelLen(i) == (pending.mip.width \div (2 ^ i)) * (pending.mip.height \div (2 ^ i))
PreCount == Len(pre.dir.entries)
ArchiveOpened == wad_file.mode # ""
BetweenOpenAndClose == ArchiveOpened /\ ~wad_file.closed
MiptexBuilt == pending.kind = "MIPTEX"
\* the lump in hand was built from args.list[idx] and is not yet appended
LumpInHand == pc \in {"qpic_log", "qpic_write", "mip_log", "mip_write"}
\* the name an input's entry is stored under
EntryName(path) == IF args.type = "LUMP" THEN basename(path) ELSE lump_name(path)
\* a base name without its final extension (a leading run of dots starts no
\* extension)
StripExt(b) ==
    LET I == IndicesOf(b, ".")
    IN  IF I = {} \/ (\A j \in 1..(Max(I) - 1) : b[j] = ".") THEN b
        ELSE SubSeq(b, 1, Max(I) - 1)
\* the archive as open() leaves it on disk
Baseline == IF pre.exists THEN pre ELSE wad_open_disk(pre, "w")
\* the lump extents written by this run
NewExtents == SubSeq(disk.body, Len(Baseline.body) + 1, Len(disk.body))

\* C1: every MIPTEX lump has its levels 1, 2 and 3 produced by one path: the
\* smooth path iff smooth-mip is set, or smart-mip is set and the quantized
\* source has no pixel above 223; else the nearest-neighbour path.  Level 0
\* is the quantized image unchanged.
C1_MipPathFollowsPolicy ==
    MiptexBuilt =>
        /\ \A i \in 1..3 :
              pending.levels[i].path =
                  IF args.smooth_mip \/ (args.smart_mip /\ SourceHasNoFullbright)
                  THEN "smooth" ELSE "nearest"
        /\ SubSeq(pending.mip.pixels, 1, Len(pending.levels[0].data))
              = pending.levels[0].data
        /\ LumpInHand =>
              pending.levels[0].data = source_indexed(args, file.image).pixels

\* a smart-mip texture without fullbright pixels went the smooth path
C1_Witness ==
    /\ MiptexBuilt
    /\ pc = "mip_write"
    /\ args.smart_mip /\ ~args.smooth_mip
    /\ SourceHasNoFullbright
    /\ pending.levels[3].path = "smooth"

C3_MipOffsets ==
    MiptexBuilt =>
        LET off == pending.mip.offsets
            buff == miptexture_write(pending.mip)
        IN  /\ Len(off) = 4
            /\ off[1] = 40
            /\ \A i \in 1..3 : off[i + 1] = off[i] + Len(pending.levels[i - 1].data)
            /\ \A i \in 0..3 :
                  /\ Len(pending.levels[i].data) = LevelLen(i)
                  /\ SubSeq(buff, off[i + 1] + 1, off[i + 1] + LevelLen(i))
                        = pending.levels[i].data
            /\ off[4] + LevelLen(3) = pending.info.file_size
            /\ pending.info.disk_size = pending.info.file_size
            /\ Len(buff) = pending.info.file_size
            /\ (pc = "loop" /\ appended # <<>>) =>
                  LET e == wad_file.file_list[Len(wad_file.file_list)]
                  IN  /\ e.file_size = off[4] + LevelLen(3)
                      /\ e.disk_size = e.file_size

\* a 10 x 9 texture (levels of 90, 20, 4 and 1 bytes) is on the archive
C3_Witness ==
    /\ MiptexBuilt
    /\ pc = "loop" /\ appended # <<>>
    /\ pending.mip.width = 10 /\ pending.mip.height = 9
    /\ pending.mip.offsets = <<40, 130, 150, 154>>

\* C4: when the run has ended after opening the archive, whether all inputs
\* were processed or one failed, the archive is closed and its directory on
\* disk holds the entries it had at open followed by one entry per appended
\* input, and none for the failing input.
C4_ClosedAndFlushedOnExit ==
    (pc = "done" /\ ArchiveOpened) =>
        LET es == disk.dir.entries
        IN  /\ wad_file.closed
            /\ disk.dir_intact
            /\ disk.header.numlumps = Len(es)
            /\ disk.header.diroffset = disk.dir.offset
            /\ Len(es) = PreCount + Len(appended)
            /\ SubSeq(es, 1, PreCount) = pre.dir.entries
            /\ \A j \in 1..Len(appended) :
                  es[PreCount + j].name = EntryName(args.list[appended[j]])
            /\ \A j \in 1..Len(appended) : appended[j] # failed_at

\* a run into an existing archive ended by the failure of its second input
C4_Witness ==
    /\ pc = "done"
    /\ ArchiveOpened
    /\ PreCount = 2
    /\ failed_at = 2
    /\ Len(appended) = 1
    /\ Len(disk.dir.entries) = 3

\* C5: once an input has failed, no later input is processed or appended,
\* and the process ends with a non-zero status; status 0 means every input
\* of the list was appended.
C5_FailureAbortsRun ==
    /\ failed_at # 0 =>
          /\ \A k \in started : k <= failed_at
          /\ \A j \in 1..Len(appended) : appended[j] < failed_at
          /\ idx = failed_at
          /\ pc \in {"unwind", "exit", "done"}
    /\ (pc = "done" /\ failed_at # 0) => exit_status > 0
    /\ pc = "done" => exit_status # -1
    /\ exit_status = 0 => appended = [j \in 1..Len(args.list) |-> j]

\* the first of two inputs failed and the run ended with an error status
C5_Witness ==
    /\ pc = "done"
    /\ Len(args.list) = 2
    /\ failed_at = 1
    /\ started = {1}
    /\ exit_status > 0

\* C6 as stated: after a run on a fresh archive that appended N lumps, the
\* directory has the N entries in input order, strictly increasing offsets,
\* entry count N, and the last entry ends at or before the directory offset.
C6_StrictlyIncreasingOffsets ==
    (pc = "done" /\ ArchiveOpened /\ ~pre.exists) =>
        LET es == disk.dir.entries
            N == Len(appended)
        IN  /\ Len(es) = N
            /\ \A j \in 1..N : appended[j] = j /\ es[j].name = EntryName(args.list[j])
            /\ \A j \in 1..(N - 1) : es[j].file_offset < es[j + 1].file_offset
            /\ disk.header.numlumps = N
            /\ N > 0 => es[N].file_offset + es[N].file_size <= disk.header.diroffset

\* C6 amended: the same, with offsets that never decrease and that increase
\* strictly after every entry of non-zero size.
C6_NonDecreasingOffsets ==
    (pc = "done" /\ ArchiveOpened /\ ~pre.exists) =>
        LET es == disk.dir.entries
            N == Len(appended)
        IN  /\ Len(es) = N
            /\ \A j \in 1..N : appended[j] = j /\ es[j].name = EntryName(args.list[j])
            /\ \A j \in 1..(N - 1) :
                  /\ es[j].file_offset <= es[j + 1].file_offset
                  /\ es[j].file_size > 0 => es[j].file_offset < es[j + 1].file_offset
            /\ disk.header.numlumps = N
            /\ N > 0 => es[N].file_offset + es[N].file_size <= disk.header.diroffset

\* an empty raw file and the lump after it share an offset
C6_Witness ==
    /\ pc = "done"
    /\ ~pre.exists
    /\ Len(disk.dir.entries) = 2
    /\ disk.dir.entries[1].file_size = 0
    /\ disk.dir.entries[1].file_offset = disk.dir.entries[2].file_offset

\* C7: an existing archive file is opened in append mode, a missing one in
\* create mode; after appending M >= 1 lumps and closing, the K old entries
\* come first, unchanged, then the M new ones, whose bytes lie after all old
\* lump data and overlap none of it.
C7_AppendKeepsExisting ==
    /\ ArchiveOpened => (wad_file.mode = "a" <=> pre.exists)
    /\ ArchiveOpened => (wad_file.mode = "w" <=> ~pre.exists)
    /\ (pc = "done" /\ pre.exists /\ Len(appended) >= 1) =>
          LET es == disk.dir.entries
          IN  /\ Len(es) = PreCount + Len(appended)
              /\ SubSeq(es, 1, PreCount) = pre.dir.entries
              /\ \A j \in (PreCount + 1)..Len(es) : \A i \in 1..PreCount :
                    /\ es[j].file_offset >= es[i].file_offset + es[i].file_size
                    /\ ~Overlaps(es[j].file_offset, es[j].file_size,
                                 es[i].file_offset, es[i].file_size)

\* one lump was appended to an existing archive of two entries
C7_Witness ==
    /\ pc = "done"
    /\ pre.exists
    /\ PreCount = 2
    /\ Len(appended) = 1
    /\ Len(disk.dir.entries) = 3
    /\ disk.dir.entries[3].file_size > 0

\* C8 as stated: the name of a QPIC or MIPTEX lump (entry and texture name
\* field) is the input's base name without its final extension.
C8_NameIsBaseNameWithoutExtension ==
    (LumpInHand /\ pending.kind \in {"QPIC", "MIPTEX"}) =>
        /\ pending.info.name = StripExt(basename(args.list[idx]))
        /\ MiptexBuilt => pending.mip.name = StripExt(basename(args.list[idx]))

====
